---- MODULE Spec2Model ----
(***************************************************************************)
(* babel-plugin-react-component-tagger (src/index.js).                     *)
(*                                                                         *)
(* The plugin visits one parsed file.  Program.enter resets the per-file   *)
(* state and normalises the file name; FunctionDeclaration and             *)
(* VariableDeclarator run findTopmostJSX, a nested traversal of the        *)
(* declaration's subtree that adds opening tags to state.topmostElements;  *)
(* JSXOpeningElement appends the __file-path attribute to a tag that is in *)
(* the set and does not carry the attribute yet.                           *)
(*                                                                         *)
(* A syntax tree node is a record [type, tag, val, kids]: kids are the     *)
(* child nodes in Babel's traversal order, tag is the operator of a        *)
(* LogicalExpression, the name of a JSXAttribute or of a JSXOpeningElement,*)
(* val the characters of a StringLiteral.  A node's identity is its path   *)
(* from the root (the sequence of child indices), never its value.         *)
(***************************************************************************)
EXTENDS Integers, Sequences, FiniteSets, TLC

\* ------------------------------------------------------------------ bounds
\* longest right-nested chain of logical operators in an input expression
MaxChain == 2
\* most children of an input fragment
MaxKids == 2
\* most statements in the body of an input component
MaxReturns == 2
\* most runs of the plugin over the same tree
MaxRuns == 2
\* longest piece of an input file name around the "src/" markers
MaxAffix == 1

\* --------------------------------------------------------------- strings
\* A string is the sequence of its characters.
Marker == <<"s", "r", "c", "/">>
Unknown == <<"u", "n", "k", "n", "o", "w", "n">>
AttrName == "__file-path"
RECURSIVE LastIndexOfFrom(_, _, _)
\* variant: String.prototype.lastIndexOf, the last occurrence at or after i
LastIndexOfFrom(s, m, i) ==
  IF i + Len(m) > Len(s) THEN -1
  ELSE LET later == LastIndexOfFrom(s, m, i + 1)
       IN IF later # -1 THEN later
          ELSE IF SubSeq(s, i + 1, i + Len(m)) = m THEN i ELSE -1

RECURSIVE IndexOfFrom(_, _, _)
\* String.prototype.indexOf, 0-based, -1 when m does not occur at or after i
IndexOfFrom(s, m, i) ==
  IF i + Len(m) > Len(s) THEN -1
  ELSE IF SubSeq(s, i + 1, i + Len(m)) = m THEN i
  ELSE IndexOfFrom(s, m, i + 1)

IndexOf(s, m) == IndexOfFrom(s, m, 0)

\* String.prototype.substring(k), k 0-based
Substring(s, k) == SubSeq(s, k + 1, Len(s))

\* `x || dflt` on strings: the empty string is falsy
OrElse(s, dflt) == IF s = <<>> THEN dflt ELSE s

\* ----------------------------------------------------------- syntax tree
Node(type, tag, val, kids) == [type |-> type, tag |-> tag, val |-> val, kids |-> kids]

Ident == Node("Identifier", "a", <<>>, <<>>)
NullLit == Node("NullLiteral", "", <<>>, <<>>)
StringLit(s) == Node("StringLiteral", "", s, <<>>)
Container(e) == Node("JSXExpressionContainer", "", <<>>, <<e>>)
StrAttr(name, s) == Node("JSXAttribute", name, <<>>, <<StringLit(s)>>)
ExprAttr(name, e) == Node("JSXAttribute", name, <<>>, <<Container(e)>>)
SpreadAttr == Node("JSXSpreadAttribute", "", <<>>, <<Ident>>)
Opening(attrs) == Node("JSXOpeningElement", "div", <<>>, attrs)
Elem(attrs, children) == Node("JSXElement", "", <<>>, <<Opening(attrs)>> \o children)
Frag(children) == Node("JSXFragment", "", <<>>, children)
Logical(op, l, r) == Node("LogicalExpression", op, <<>>, <<l, r>>)
Cond(c, x, y) == Node("ConditionalExpression", "", <<>>, <<c, x, y>>)
Block(stmts) == Node("BlockStatement", "", <<>>, stmts)
Return(arg) == Node("ReturnStatement", "", <<>>, <<arg>>)
ReturnVoid == Node("ReturnStatement", "", <<>>, <<>>)
Arrow(body) == Node("ArrowFunctionExpression", "", <<>>, <<body>>)
FuncExpr(stmts) == Node("FunctionExpression", "", <<>>, <<Block(stmts)>>)
FuncDecl(stmts) == Node("FunctionDeclaration", "", <<>>, <<Block(stmts)>>)
VarDecl(init) == Node("VariableDeclarator", "", <<>>, <<init>>)
ExprStmt(e) == Node("ExpressionStatement", "", <<>>, <<e>>)
Program(stmts) == Node("Program", "", <<>>, stmts)

RECURSIVE NodeAt(_, _)
NodeAt(n, p) == IF p = <<>> THEN n ELSE NodeAt(n.kids[Head(p)], Tail(p))

RECURSIVE PreOrder(_, _)
RECURSIVE PreOrderKids(_, _, _)
\* the paths of n's subtree in the order a depth-first traversal enters them
PreOrder(n, p) == <<p>> \o PreOrderKids(n, p, 1)
PreOrderKids(n, p, i) ==
  IF i > Len(n.kids) THEN <<>>
  ELSE PreOrder(n.kids[i], Append(p, i)) \o PreOrderKids(n, p, i + 1)

Range(s) == {s[i] : i \in 1..Len(s)}
Front(s) == SubSeq(s, 1, Len(s) - 1)
IsPrefix(r, p) == Len(r) <= Len(p) /\ SubSeq(p, 1, Len(r)) = r

\* t.isJSXElement, t.isJSXFragment, ... : a test on the node's type
IsType(n, type) == n.type = type
\* the openingElement of the JSXElement at path p
OpeningOf(p) == Append(p, 1)
\* the argument of a ReturnStatement, or "none" for a bare return
HasArgument(n) == Len(n.kids) > 0

\* ---------------------------------------------------------------- inputs
Old == <<"o">>
\* <div/>
E0 == Elem(<<>>, <<>>)
\* <div __file-path="o"/>, a tag that carries the attribute before processing
EPre == Elem(<<StrAttr(AttrName, Old)>>, <<>>)
\* <div className="x" {...a}><div/></div>
EKid == Elem(<<StrAttr("className", <<"x">>), SpreadAttr>>, <<E0>>)

Ends == {E0, Ident}

RECURSIVE RightChain(_, _)
\* a && (a && ( ... && e))
RightChain(d, e) == IF d = 0 THEN e ELSE Logical("&&", Ident, RightChain(d - 1, e))

RECURSIVE LeftOperand(_)
LeftOperand(d) == IF d <= 1 THEN Ident ELSE Logical("&&", LeftOperand(d - 1), Ident)
\* a && a && ... && e, as the parser associates it: ((a && a) && ...) && e
LeftChain(d, e) == Logical("&&", LeftOperand(d), e)

Chains ==
  {RightChain(d, e) : d \in 1..MaxChain, e \in Ends}
  \cup {LeftChain(d, e) : d \in 1..MaxChain, e \in Ends}
  \cup {Logical("||", Ident, E0), Logical("&&", Ident, Logical("||", Ident, E0)),
        Logical("&&", E0, Ident)}

Conds == {Cond(Ident, x, y) : x \in {E0, NullLit}, y \in {E0, NullLit}}

\* expressions that occur as a returned value, an attribute value or a fragment child
Vals == Ends \cup Chains \cup Conds \cup {Arrow(E0)}

PropElems == {Elem(<<ExprAttr("element", v)>>, <<>>) : v \in Vals}

SimpleKids == {E0, Container(Cond(Ident, E0, E0))}
RichKids == {E0, EPre, Node("JSXText", "", <<>>, <<>>)} \cup {Container(v) : v \in Vals}

\* sequences of length n with one member of rich at some place and members of simple elsewhere
OneRich(n, simple, rich) ==
  UNION {{[j \in 1..n |-> IF j = i THEN r ELSE s[j]] : r \in rich, s \in [1..n -> simple]}
         : i \in 1..n}

Frags == {Frag(k) : k \in UNION {OneRich(n, SimpleKids, RichKids) : n \in 1..MaxKids}}

\* fragments of simple children only
PlainFrags == {Frag(k) : k \in UNION {[1..n -> SimpleKids] : n \in 1..MaxKids}}

\* the expressions a body of one statement returns
RichExprs == {EPre, EKid} \cup PropElems \cup Frags \cup Vals

\* the expressions a statement next to another statement returns
MidExprs ==
  {EPre, EKid} \cup PropElems \cup Vals \cup PlainFrags \cup {Frag(<<k>>) : k \in RichKids}

SimpleStmts ==
  {Return(E0), Return(NullLit), Return(Frag(<<E0>>)), FuncDecl(<<Return(E0)>>)}

\* const x = <div element={<div/>}/>; inside a body: an attribute value the
\* scan of the component meets outside every return site
LocalStmt == VarDecl(Elem(<<ExprAttr("element", E0)>>, <<>>))

\* a nested helper declared with an arrow function: const h = () => <div/>;
NestedArrow == VarDecl(Arrow(E0))

\* bodies: one statement; a simple statement before or after another one;
\* up to MaxReturns simple statements
Bodies ==
  {<<LocalStmt, s>> : s \in SimpleStmts}
  \cup {<<LocalStmt, Return(e)>> : e \in PropElems}
  \cup {<<s, LocalStmt>> : s \in SimpleStmts}
  \cup {<<NestedArrow, s>> : s \in SimpleStmts}
  \cup {<<s, NestedArrow>> : s \in SimpleStmts}
  \cup {<<Return(e)>> : e \in RichExprs}
  \cup {<<ReturnVoid>>}
  \cup {<<s, Return(e)>> : s \in SimpleStmts, e \in MidExprs}
  \cup {<<Return(e), s>> : s \in SimpleStmts, e \in MidExprs}
  \cup {<<s, ReturnVoid>> : s \in SimpleStmts}
  \cup UNION {[1..n -> SimpleStmts] : n \in 1..MaxReturns}

\* bodies of one statement, and bodies of simple statements only
ShortBodies ==
  {<<Return(e)>> : e \in RichExprs}
  \cup UNION {[1..n -> SimpleStmts] : n \in 1..MaxReturns}

Components ==
  {FuncDecl(b) : b \in Bodies}
  \cup {VarDecl(Arrow(Block(b))) : b \in ShortBodies}
  \cup {VarDecl(FuncExpr(b)) : b \in ShortBodies}
  \cup {VarDecl(Arrow(e)) : e \in RichExprs}

\* top-level statements that define no component
Outside ==
  {ExprStmt(Elem(<<StrAttr("path", <<"/">>), ExprAttr("element", Elem(<<>>, <<E0>>))>>, <<>>)),
   VarDecl(Elem(<<ExprAttr("element", E0)>>, <<>>)),
   Node("VariableDeclarator", "", <<>>, <<>>)}

SmallComponents ==
  {FuncDecl(<<Return(E0)>>), VarDecl(Arrow(E0)), FuncDecl(<<Return(E0), Return(E0)>>)}

Files ==
  {Program(<<c>>) : c \in Components \cup Outside}
  \cup {Program(<<o, c>>) : o \in Outside, c \in SmallComponents}
  \cup {Program(<<c, o>>) : o \in Outside, c \in SmallComponents}

\* file names: pieces over a small alphabet around zero, one or two markers
Alphabet == {"s", "a"}
Affixes == UNION {[1..n -> Alphabet] : n \in 0..MaxAffix}
Names ==
  {a \o m1 \o b \o m2 \o c : a \in Affixes, b \in Affixes, c \in Affixes,
                             m1 \in {<<>>, Marker}, m2 \in {<<>>, Marker}}
\* state.file.opts as the plugin reads it: the file name may be absent
FileOpts ==
  {[hasFilename |-> TRUE, filename |-> f] : f \in Names}
  \cup {[hasFilename |-> FALSE, filename |-> <<>>]}

\* the file name the main specification processes its trees under
MainOpts == [hasFilename |-> TRUE, filename |-> <<"a", "/">> \o Marker \o <<"a">>]

\* a tree for the file-name specification: every kind of declaration and return site
PathFiles ==
  {Program(<<FuncDecl(<<Return(Elem(<<ExprAttr("element", E0)>>, <<>>))>>),
             VarDecl(Arrow(EPre)),
             VarDecl(Ident)>>)}

\* ----------------------------------------------------------------- state
VARIABLES
  ast,              \* the parsed file; its shape does not change
  opts,             \* state.file.opts: the file name handed to the plugin
  attributes,       \* node.attributes of every opening tag, by the tag's path
  topmostElements,  \* state.topmostElements: the marked opening tags
  filePath,         \* state.filePath
  queue,            \* the nodes the file's traversal has still to enter
  scanRoot,         \* findTopmostJSX: the declaration being scanned
  scanQueue,        \* findTopmostJSX: the nodes path.traverse has still to enter
  foundTopmost,     \* findTopmostJSX: the local flag
  pc,               \* "start", "visit", "scan" (inside findTopmostJSX) or "done"
  runs              \* how many times the plugin has been started on the tree

vars == <<ast, opts, attributes, topmostElements, filePath, queue, scanRoot,
          scanQueue, foundTopmost, pc, runs>>

\* the paths of the opening tags of the tree
OpeningPaths(tree) ==
  {p \in Range(PreOrder(tree, <<>>)) : IsType(NodeAt(tree, p), "JSXOpeningElement")}

\* an entry of node.attributes: its node type, its name and, for a string value, the string
AttrEntry(a) ==
  [type |-> a.type, name |-> a.tag,
   value |-> IF a.type = "JSXAttribute" /\ Len(a.kids) > 0 THEN a.kids[1].val ELSE <<>>]

\* the attribute list the parser produced for the opening tag at p
ParsedAttributes(tree, p) ==
  [i \in 1..Len(NodeAt(tree, p).kids) |-> AttrEntry(NodeAt(tree, p).kids[i])]

InitTree(tree, o) ==
  /\ ast = tree
  /\ opts = o
  /\ attributes = [p \in OpeningPaths(tree) |-> ParsedAttributes(tree, p)]
  /\ topmostElements = {}
  /\ filePath = <<>>
  /\ queue = <<>>
  /\ scanRoot = <<>>
  /\ scanQueue = <<>>
  /\ foundTopmost = FALSE
  /\ pc = "start"
  /\ runs = 1

Init == \E tree \in Files : InitTree(tree, MainOpts)

InitPath == \E tree \in PathFiles, o \in FileOpts : InitTree(tree, o)

\* ------------------------------------------------------- Program.enter
\* the normalised path: the file name from its first "src/" on
NormalizePath(o) ==
  LET filename == IF o.hasFilename THEN o.filename ELSE <<>>
      srcIndex == IndexOf(filename, Marker)
  IN IF srcIndex # -1 THEN Substring(filename, srcIndex) ELSE filename

ProgramEnter ==
  /\ pc = "start"
  /\ topmostElements' = {}
  /\ filePath' = NormalizePath(opts)
  /\ queue' = Tail(PreOrder(ast, <<>>))
  /\ pc' = "visit"
  /\ UNCHANGED <<ast, opts, attributes, scanRoot, scanQueue, foundTopmost, runs>>

\* ------------------------------------------------------ findTopmostJSX
NoPath == <<0>>

RECURSIVE ExtractJSXFromLogicalAnd(_, _)
\* the path of the element at the end of the && right-operand chain, or NoPath
ExtractJSXFromLogicalAnd(expr, p) ==
  IF IsType(expr, "JSXElement") THEN p
  ELSE IF IsType(expr, "LogicalExpression") /\ expr.tag = "&&"
       THEN ExtractJSXFromLogicalAnd(expr.kids[2], Append(p, 2))
  ELSE NoPath

\* the opening tags that the three-way classification of an expression marks
ClassifyExpression(expression, p) ==
  IF IsType(expression, "JSXElement") THEN {OpeningOf(p)}
  ELSE IF IsType(expression, "LogicalExpression") /\ expression.tag = "&&"
       THEN LET jsxElement == ExtractJSXFromLogicalAnd(expression, p)
            IN IF jsxElement # NoPath THEN {OpeningOf(jsxElement)} ELSE {}
  ELSE IF IsType(expression, "ConditionalExpression")
       THEN (IF IsType(expression.kids[2], "JSXElement")
             THEN {OpeningOf(Append(p, 2))} ELSE {})
            \cup (IF IsType(expression.kids[3], "JSXElement")
                  THEN {OpeningOf(Append(p, 3))} ELSE {})
  ELSE {}

\* the opening tags one child of a fragment contributes
FragmentChildMarks(child, p) ==
  IF IsType(child, "JSXElement") THEN {OpeningOf(p)}
  ELSE IF IsType(child, "JSXExpressionContainer")
       THEN ClassifyExpression(child.kids[1], Append(p, 1))
  ELSE {}

\* the opening tags tagFragmentChildren adds for the node at p
TagFragmentChildren(fragment, p) ==
  IF ~IsType(fragment, "JSXFragment") THEN {}
  ELSE UNION {FragmentChildMarks(fragment.kids[i], Append(p, i)) : i \in 1..Len(fragment.kids)}

\* the opening tags a return site with returned expression e (at path p) adds
ReturnSiteMarks(e, p) ==
  IF IsType(e, "JSXElement") THEN {OpeningOf(p)}
  ELSE IF IsType(e, "JSXFragment") THEN TagFragmentChildren(e, p)
  ELSE {}
\* variant: the prop-value visitor gives up once foundTopmost is set
PropValueMarksGated(p) ==
  IF ~foundTopmost /\ IsType(NodeAt(ast, Front(p)), "JSXAttribute")
  THEN ClassifyExpression(NodeAt(ast, p).kids[1], Append(p, 1))
  ELSE {}

\* the opening tags the JSXExpressionContainer visitor adds for the container at p
PropValueMarks(p) ==
  IF IsType(NodeAt(ast, Front(p)), "JSXAttribute")
  THEN ClassifyExpression(NodeAt(ast, p).kids[1], Append(p, 1))
  ELSE {}

\* findTopmostJSX(path, state) starts: path.traverse over the subtree below path
StartScan(p) ==
  /\ scanRoot' = p
  /\ foundTopmost' = FALSE
  /\ scanQueue' = Tail(PreOrder(NodeAt(ast, p), p))
  /\ pc' = "scan"

ScanHead == NodeAt(ast, Head(scanQueue))

\* variant: every return statement that is looked at sets the flag
ReturnStatementEager ==
  /\ pc = "scan"
  /\ scanQueue # <<>>
  /\ IsType(ScanHead, "ReturnStatement")
  /\ LET marks == IF foundTopmost \/ ~HasArgument(ScanHead) THEN {}
                  ELSE ReturnSiteMarks(ScanHead.kids[1], Append(Head(scanQueue), 1))
     IN /\ topmostElements' = topmostElements \cup marks
        /\ foundTopmost' = TRUE
  /\ scanQueue' = Tail(scanQueue)
  /\ UNCHANGED <<ast, opts, attributes, filePath, queue, scanRoot, pc, runs>>

\* ReturnStatement(returnPath): the returned expression is node.argument
ReturnStatement ==
  /\ pc = "scan"
  /\ scanQueue # <<>>
  /\ IsType(ScanHead, "ReturnStatement")
  /\ LET marks == IF foundTopmost \/ ~HasArgument(ScanHead) THEN {}
                  ELSE ReturnSiteMarks(ScanHead.kids[1], Append(Head(scanQueue), 1))
     IN /\ topmostElements' = topmostElements \cup marks
        /\ foundTopmost' = (foundTopmost \/ marks # {})
  /\ scanQueue' = Tail(scanQueue)
  /\ UNCHANGED <<ast, opts, attributes, filePath, queue, scanRoot, pc, runs>>

\* ArrowFunctionExpression(arrowPath): the returned expression is node.body
ArrowFunctionExpression ==
  /\ pc = "scan"
  /\ scanQueue # <<>>
  /\ IsType(ScanHead, "ArrowFunctionExpression")
  /\ LET marks == IF foundTopmost THEN {}
                  ELSE ReturnSiteMarks(ScanHead.kids[1], Append(Head(scanQueue), 1))
     IN /\ topmostElements' = topmostElements \cup marks
        /\ foundTopmost' = (foundTopmost \/ marks # {})
  /\ scanQueue' = Tail(scanQueue)
  /\ UNCHANGED <<ast, opts, attributes, filePath, queue, scanRoot, pc, runs>>

\* variant: marking an attribute value also sets the flag
JSXExpressionContainerSetsFlag ==
  /\ pc = "scan"
  /\ scanQueue # <<>>
  /\ IsType(ScanHead, "JSXExpressionContainer")
  /\ topmostElements' = topmostElements \cup PropValueMarks(Head(scanQueue))
  /\ foundTopmost' = (foundTopmost \/ PropValueMarks(Head(scanQueue)) # {})
  /\ scanQueue' = Tail(scanQueue)
  /\ UNCHANGED <<ast, opts, attributes, filePath, queue, scanRoot, pc, runs>>

JSXExpressionContainer ==
  /\ pc = "scan"
  /\ scanQueue # <<>>
  /\ IsType(ScanHead, "JSXExpressionContainer")
  /\ topmostElements' = topmostElements \cup PropValueMarks(Head(scanQueue))
  /\ scanQueue' = Tail(scanQueue)
  /\ UNCHANGED <<ast, opts, attributes, filePath, queue, scanRoot, foundTopmost, pc, runs>>

\* the nested traversal enters a node it has no visitor for
ScanOther ==
  /\ pc = "scan"
  /\ scanQueue # <<>>
  /\ ScanHead.type \notin {"ReturnStatement", "ArrowFunctionExpression", "JSXExpressionContainer"}
  /\ scanQueue' = Tail(scanQueue)
  /\ UNCHANGED <<ast, opts, attributes, topmostElements, filePath, queue, scanRoot,
                 foundTopmost, pc, runs>>

\* path.traverse is over: findTopmostJSX returns to the declaration's visitor
ScanEnd ==
  /\ pc = "scan"
  /\ scanQueue = <<>>
  /\ pc' = "visit"
  /\ UNCHANGED <<ast, opts, attributes, topmostElements, filePath, queue, scanRoot,
                 scanQueue, foundTopmost, runs>>

\* ------------------------------------------------- the plugin's visitor
VisitHead == NodeAt(ast, Head(queue))

FunctionDeclaration ==
  /\ pc = "visit"
  /\ queue # <<>>
  /\ IsType(VisitHead, "FunctionDeclaration")
  /\ StartScan(Head(queue))
  /\ queue' = Tail(queue)
  /\ UNCHANGED <<ast, opts, attributes, topmostElements, filePath, runs>>
\* variant: every initialised declarator is scanned
IsAnyInit(n) == Len(n.kids) > 0

\* the declarator's init is an arrow function or a function expression
IsComponentInit(n) ==
  /\ Len(n.kids) > 0
  /\ \/ IsType(n.kids[1], "ArrowFunctionExpression")
     \/ IsType(n.kids[1], "FunctionExpression")

VariableDeclarator ==
  /\ pc = "visit"
  /\ queue # <<>>
  /\ IsType(VisitHead, "VariableDeclarator")
  /\ IF IsComponentInit(VisitHead)
     THEN StartScan(Head(queue))
     ELSE UNCHANGED <<scanRoot, foundTopmost, scanQueue, pc>>
  /\ queue' = Tail(queue)
  /\ UNCHANGED <<ast, opts, attributes, topmostElements, filePath, runs>>
\* variant: only the first attribute is looked at
HasAttributeFirst(attrs) ==
  Len(attrs) > 0 /\ attrs[1].type = "JSXAttribute" /\ attrs[1].name = AttrName

\* variant: any attribute counts, whatever its name
HasAnyAttribute(attrs) == \E i \in 1..Len(attrs) : attrs[i].type = "JSXAttribute"

\* attributes.some(attr => t.isJSXAttribute(attr) && attr.name && attr.name.name === '__file-path')
HasAttribute(attrs) ==
  \E i \in 1..Len(attrs) : attrs[i].type = "JSXAttribute" /\ attrs[i].name = AttrName
\* variant: membership by structural equality of the nodes
IsTopmostStructural(p) == \E q \in topmostElements : NodeAt(ast, q) = NodeAt(ast, p)

\* state.topmostElements.has(path.node): membership by node identity
IsTopmost(p) == p \in topmostElements

\* t.jsxAttribute(t.jsxIdentifier('__file-path'), t.stringLiteral(filePath))
NewAttribute ==
  [type |-> "JSXAttribute", name |-> AttrName, value |-> OrElse(filePath, Unknown)]

JSXOpeningElement ==
  /\ pc = "visit"
  /\ queue # <<>>
  /\ IsType(VisitHead, "JSXOpeningElement")
  /\ LET p == Head(queue)
     IN IF IsTopmost(p) /\ ~HasAttribute(attributes[p])
        THEN attributes' = [attributes EXCEPT ![p] = Append(@, NewAttribute)]
        ELSE UNCHANGED attributes
  /\ queue' = Tail(queue)
  /\ UNCHANGED <<ast, opts, topmostElements, filePath, scanRoot, scanQueue,
                 foundTopmost, pc, runs>>

\* the traversal enters a node the plugin has no visitor for
VisitOther ==
  /\ pc = "visit"
  /\ queue # <<>>
  /\ VisitHead.type \notin {"FunctionDeclaration", "VariableDeclarator", "JSXOpeningElement"}
  /\ queue' = Tail(queue)
  /\ UNCHANGED <<ast, opts, attributes, topmostElements, filePath, scanRoot, scanQueue,
                 foundTopmost, pc, runs>>

\* the traversal of the file is over
ProgramExit ==
  /\ pc = "visit"
  /\ queue = <<>>
  /\ pc' = "done"
  /\ UNCHANGED <<ast, opts, attributes, topmostElements, filePath, queue, scanRoot,
                 scanQueue, foundTopmost, runs>>

\* the plugin is run again over the tree it has already processed
Rerun ==
  /\ pc = "done"
  /\ runs < MaxRuns
  /\ pc' = "start"
  /\ runs' = runs + 1
  /\ UNCHANGED <<ast, opts, attributes, topmostElements, filePath, queue, scanRoot,
                 scanQueue, foundTopmost>>

Next ==
  \/ ProgramEnter
  \/ FunctionDeclaration
  \/ VariableDeclarator
  \/ JSXOpeningElement
  \/ VisitOther
  \/ ReturnStatement
  \/ ArrowFunctionExpression
  \/ JSXExpressionContainer
  \/ ScanOther
  \/ ScanEnd
  \/ ProgramExit
  \/ Rerun

Spec == Init /\ [][Next]_vars

SpecPath == InitPath /\ [][Next]_vars

\* ============================================================ properties
\* What the properties say about a tree is stated from the tree alone, not
\* through the operators the visitors are modelled with.

AllPaths == Range(PreOrder(ast, <<>>))
TypeAt(p) == NodeAt(ast, p).type
Done == pc = "done"

\* the opening tag at p carries an attribute named __file-path
Carries(p) == \E i \in 1..Len(attributes[p]) : attributes[p][i].name = AttrName
\* the opening tag at p carried it when the file was parsed
CarriedAtParse(p) ==
  \E i \in 1..Len(NodeAt(ast, p).kids) : NodeAt(ast, p).kids[i].tag = AttrName
\* how many attributes named __file-path the opening tag at p has
CountOf(p) == Cardinality({i \in 1..Len(attributes[p]) : attributes[p][i].name = AttrName})

FunctionTypes == {"FunctionDeclaration", "FunctionExpression", "ArrowFunctionExpression"}

\* a declaration that defines a component: a function declaration, or a
\* variable declarator initialised with an arrow function or a function expression
IsComponentRoot(r) ==
  \/ TypeAt(r) = "FunctionDeclaration"
  \/ /\ TypeAt(r) = "VariableDeclarator"
     /\ Len(NodeAt(ast, r).kids) > 0
     /\ NodeAt(ast, r).kids[1].type \in {"ArrowFunctionExpression", "FunctionExpression"}

ComponentRoots == {r \in AllPaths : IsComponentRoot(r)}

\* the function a component root declares
FunctionOf(r) == IF TypeAt(r) = "FunctionDeclaration" THEN r ELSE Append(r, 1)

\* p lies in the function at f and in no function nested in it
OwnedBy(f, p) ==
  /\ IsPrefix(f, p)
  /\ p # f
  /\ \A k \in (Len(f) + 1)..(Len(p) - 1) : TypeAt(SubSeq(p, 1, k)) \notin FunctionTypes

\* the return statements of the component at r
OwnReturns(r) ==
  {p \in AllPaths : TypeAt(p) = "ReturnStatement" /\ OwnedBy(FunctionOf(r), p)}

\* the expressions the component at r returns: the arguments of its return
\* statements and, for an arrow function without a block, its body
ReturnedExprs(r) ==
  {Append(p, 1) : p \in {q \in OwnReturns(r) : Len(NodeAt(ast, q).kids) > 0}}
  \cup (IF /\ TypeAt(FunctionOf(r)) = "ArrowFunctionExpression"
           /\ TypeAt(Append(FunctionOf(r), 1)) # "BlockStatement"
        THEN {Append(FunctionOf(r), 1)} ELSE {})

RECURSIVE ChainEnd(_)
\* the operand an && chain at path p ends in, following right-hand operands
ChainEnd(p) ==
  IF TypeAt(p) = "LogicalExpression" /\ NodeAt(ast, p).tag = "&&"
  THEN ChainEnd(Append(p, 2)) ELSE p

IsAndChain(p) == TypeAt(p) = "LogicalExpression" /\ NodeAt(ast, p).tag = "&&"

\* the opening tags of the elements an interpolated expression at p resolves to:
\* the element itself, the element an && chain ends in, the element branches of a ternary
Resolved(p) ==
  IF TypeAt(p) = "JSXElement" THEN {Append(p, 1)}
  ELSE IF IsAndChain(p)
       THEN (IF TypeAt(ChainEnd(p)) = "JSXElement" THEN {Append(ChainEnd(p), 1)} ELSE {})
  ELSE IF TypeAt(p) = "ConditionalExpression"
       THEN {Append(Append(p, b), 1) : b \in {b \in {2, 3} : TypeAt(Append(p, b)) = "JSXElement"}}
  ELSE {}

\* the opening tags of the qualifying top-level children of the fragment at p
Qualifying(p) ==
  UNION {IF TypeAt(Append(p, i)) = "JSXElement" THEN {Append(Append(p, i), 1)}
         ELSE IF TypeAt(Append(p, i)) = "JSXExpressionContainer"
              THEN Resolved(Append(Append(p, i), 1))
         ELSE {}
         : i \in 1..Len(NodeAt(ast, p).kids)}

\* the first occurrences of the marker in s (1-based start positions)
Occurrences(s) == {i \in 1..Len(s) : i + 3 <= Len(s) /\ SubSeq(s, i, i + 3) = Marker}

\* the attribute value the file name calls for
ExpectedValue(o) ==
  IF ~o.hasFilename \/ o.filename = <<>> THEN Unknown
  ELSE IF Occurrences(o.filename) = {} THEN o.filename
  ELSE LET first == CHOOSE i \in Occurrences(o.filename) :
                      \A j \in Occurrences(o.filename) : i <= j
       IN SubSeq(o.filename, first, Len(o.filename))

\* the opening tag at p carries __file-path with the file's normalised path
TaggedWithPath(p) ==
  \E i \in 1..Len(attributes[p]) :
    attributes[p][i].name = AttrName /\ attributes[p][i].value = ExpectedValue(opts)

\* C1: when processing is over, in every component with two or more return
\* statements that each return a markup element, every returned element's
\* opening tag carries __file-path.
C1_AllReturnsTagged ==
  Done =>
    \A r \in ComponentRoots :
      (/\ Cardinality(OwnReturns(r)) >= 2
       /\ \A p \in OwnReturns(r) :
            Len(NodeAt(ast, p).kids) > 0 /\ TypeAt(Append(p, 1)) = "JSXElement")
      => \A p \in OwnReturns(r) : Carries(OpeningOf(Append(p, 1)))

\* C2: when processing is over, for every fragment a component returns, every
\* qualifying top-level child's opening tag carries __file-path, and the ones
\* that did not carry it at parse time carry the file's normalised path.
C2_FragmentComplete ==
  Done =>
    \A r \in ComponentRoots : \A e \in ReturnedExprs(r) :
      TypeAt(e) = "JSXFragment" =>
        \A q \in Qualifying(e) :
          Carries(q) /\ (~CarriedAtParse(q) => TaggedWithPath(q))

\* C3: when processing is over, for every ternary a component returns (return
\* argument or arrow body), each branch that is a markup element carries
\* __file-path on its opening tag.
C3_TernaryReturnTagged ==
  Done =>
    \A r \in ComponentRoots : \A e \in ReturnedExprs(r) :
      TypeAt(e) = "ConditionalExpression" => \A q \in Resolved(e) : Carries(q)

\* C4: when processing is over, for every expression-container child of a
\* returned fragment whose expression is an && chain, the opening tag of the
\* chain's final right-hand operand is marked exactly when that operand is a
\* markup element, and no other tag inside the container is marked.
C4_NestedConjunction ==
  Done =>
    \A r \in ComponentRoots : \A e \in ReturnedExprs(r) :
      TypeAt(e) = "JSXFragment" =>
        \A i \in 1..Len(NodeAt(ast, e).kids) :
          LET c == Append(e, i)
              x == Append(c, 1)
          IN (TypeAt(c) = "JSXExpressionContainer" /\ IsAndChain(x)) =>
               /\ TypeAt(ChainEnd(x)) = "JSXElement" =>
                    Append(ChainEnd(x), 1) \in topmostElements
               /\ \A q \in topmostElements :
                    IsPrefix(c, q) =>
                      (TypeAt(ChainEnd(x)) = "JSXElement" /\ q = Append(ChainEnd(x), 1))

\* C9: when processing is over, for every && expression a component's return
\* statement returns whose right-operand chain ends in a markup element, that
\* element's opening tag carries __file-path.
C9_ConditionalReturnTagged ==
  Done =>
    \A r \in ComponentRoots : \A p \in OwnReturns(r) :
      (Len(NodeAt(ast, p).kids) > 0 /\ IsAndChain(Append(p, 1))) =>
        \A q \in Resolved(Append(p, 1)) : Carries(q)

\* the attribute list of the opening tag at p as the parser produced it
Parsed(p) == ParsedAttributes(ast, p)

\* C5: no step leaves an opening tag with two attributes named __file-path,
\* and no step changes the attribute list of a tag that already carries one
\* (every input tag starts with at most one).
C5_NoDuplicate ==
  [][\A p \in DOMAIN attributes :
       /\ CountOf(p)' <= 1
       /\ Carries(p) => attributes'[p] = attributes[p]]_vars

\* a second run has been over a tag that the first run tagged
C5_Witness ==
  /\ Done
  /\ runs = 2
  /\ \E p \in topmostElements : ~CarriedAtParse(p) /\ CountOf(p) = 1

\* C6: every attribute the plugin has written has the value the file name
\* calls for: the file name from the first occurrence of "src/" on, the file
\* name unchanged when "src/" does not occur, "unknown" when the file name is
\* absent or empty.
C6_PathTrim ==
  \A p \in DOMAIN attributes :
    \A i \in (Len(Parsed(p)) + 1)..Len(attributes[p]) :
      attributes[p][i].value = ExpectedValue(opts)

\* an attribute was written for a file name with two markers and a prefix to trim
C6_Witness ==
  /\ Done
  /\ opts.hasFilename
  /\ Cardinality(Occurrences(opts.filename)) >= 2
  /\ 1 \notin Occurrences(opts.filename)
  /\ \E p \in DOMAIN attributes : Len(attributes[p]) > Len(Parsed(p))

\* the expression containers that are the value of a markup attribute
AttributeValues ==
  {p \in AllPaths :
     TypeAt(p) = "JSXExpressionContainer" /\ TypeAt(Front(p)) = "JSXAttribute"}

\* p lies in the subtree of a component root
InComponent(p) == \E k \in 0..Len(p) : IsComponentRoot(SubSeq(p, 1, k))

\* C7 as stated: when processing is over, for every attribute-value container
\* anywhere in the file, every element its expression resolves to is marked
\* and carries __file-path.
C7_PropValueWholeFile ==
  Done =>
    \A p \in AttributeValues :
      \A q \in Resolved(Append(p, 1)) : q \in topmostElements /\ Carries(q)

\* C7 amended: when processing is over, for every attribute-value container
\* inside the subtree of a component root, every element its expression
\* resolves to is marked and carries __file-path.
C7_PropValueInComponents ==
  Done =>
    \A p \in AttributeValues :
      InComponent(p) =>
        \A q \in Resolved(Append(p, 1)) : q \in topmostElements /\ Carries(q)

\* both element branches of a ternary attribute value inside a component were tagged
C7_Witness ==
  /\ Done
  /\ \E p \in AttributeValues :
       /\ InComponent(p)
       /\ Cardinality(Resolved(Append(p, 1))) = 2
       /\ \A q \in Resolved(Append(p, 1)) : q \in topmostElements /\ TaggedWithPath(q)

\* C8: an opening tag whose attribute list differs from the parsed one, or
\* that is marked, lies inside the subtree of a component root; in a file
\* without component roots no tag is marked or changed.
C8_OnlyInsideComponents ==
  \A p \in DOMAIN attributes :
    (attributes[p] # Parsed(p) \/ p \in topmostElements) => InComponent(p)

\* a file without a component, holding an element as an attribute value, was
\* processed and nothing was marked
C8_Witness ==
  /\ Done
  /\ ComponentRoots = {}
  /\ \E p \in AttributeValues : Resolved(Append(p, 1)) # {}
  /\ topmostElements = {}
  /\ \A p \in DOMAIN attributes : attributes[p] = Parsed(p)

\* C10: a step changes the attribute list of an opening tag only if the tag
\* is in topmostElements, and then by appending one attribute; every tag's
\* list is the parsed list, or the parsed list with one attribute appended.
C10_OnlyMarkedOnlyAppend ==
  [][\A p \in DOMAIN attributes :
       /\ attributes'[p] # attributes[p] =>
            /\ p \in topmostElements
            /\ Len(attributes'[p]) = Len(attributes[p]) + 1
            /\ SubSeq(attributes'[p], 1, Len(attributes[p])) = attributes[p]
       /\ \/ attributes'[p] = Parsed(p)
          \/ /\ Len(attributes'[p]) = Len(Parsed(p)) + 1
             /\ SubSeq(attributes'[p], 1, Len(Parsed(p))) = Parsed(p)]_vars

\* of two structurally identical tags the marked one got the attribute appended
\* after its parsed attributes and the unmarked one is unchanged
C10_Witness ==
  /\ Done
  /\ \E p \in DOMAIN attributes, q \in DOMAIN attributes :
       /\ NodeAt(ast, p) = NodeAt(ast, q)
       /\ p \in topmostElements
       /\ q \notin topmostElements
       /\ attributes[p] = Append(Parsed(p), NewAttribute)
       /\ attributes[q] = Parsed(q)

\* ------------------------------------------------- return sites of a scan
SiteTypes == {"ReturnStatement", "ArrowFunctionExpression"}

\* the return sites the scan of the declaration at r visits
ScanSites(r) == {p \in AllPaths : IsPrefix(r, p) /\ p # r /\ TypeAt(p) \in SiteTypes}

\* the place of p in the traversal order of the file
OrderOf(p) == CHOOSE i \in 1..Len(PreOrder(ast, <<>>)) : PreOrder(ast, <<>>)[i] = p

\* the return site at p returns neither a markup element nor a fragment
NonMarkupSite(p) ==
  \/ Len(NodeAt(ast, p).kids) = 0
  \/ TypeAt(Append(p, 1)) \notin {"JSXElement", "JSXFragment"}

\* the scan is about to visit a return site
AtSite == pc = "scan" /\ scanQueue # <<>> /\ TypeAt(Head(scanQueue)) \in SiteTypes

\* after a run, a return statement of a component that returns an element and
\* comes after non-markup return sites only has its element marked and tagged
C11_LaterReturnMarked ==
  \A r \in ComponentRoots : \A p \in OwnReturns(r) :
    (/\ ~NonMarkupSite(p)
     /\ TypeAt(Append(p, 1)) = "JSXElement"
     /\ \A q \in ScanSites(r) : OrderOf(q) < OrderOf(p) => NonMarkupSite(q))
    => /\ OpeningOf(Append(p, 1)) \in topmostElements
       /\ Carries(OpeningOf(Append(p, 1)))

\* C11: a visit of a return site whose expression is neither a markup element
\* nor a fragment (or that has none) changes neither topmostElements nor
\* foundTopmost; and when a run ends, a return statement that returns an
\* element after such return sites only is marked and tagged.
C11_NonMarkupIgnored ==
  [][/\ (AtSite /\ NonMarkupSite(Head(scanQueue))) =>
          (topmostElements' = topmostElements /\ foundTopmost' = foundTopmost)
     /\ (pc' = "done") => C11_LaterReturnMarked']_vars

\* if (!data) return null; return <div/>; was processed and the <div> is tagged
C11_Witness ==
  /\ Done
  /\ \E r \in ComponentRoots : \E p \in OwnReturns(r), q \in OwnReturns(r) :
       /\ OrderOf(q) < OrderOf(p)
       /\ Len(NodeAt(ast, q).kids) > 0
       /\ Len(NodeAt(ast, p).kids) > 0
       /\ TypeAt(Append(q, 1)) = "NullLiteral"
       /\ TypeAt(Append(p, 1)) = "JSXElement"
       /\ OpeningOf(Append(p, 1)) \in topmostElements
       /\ TaggedWithPath(OpeningOf(Append(p, 1)))

\* C12: when a run ends, for every component with a return site whose
\* fragment had one or more children marked, every return statement of the
\* component that is visited afterwards and returns a markup element has that
\* element marked and tagged.
C12_FragmentDoesNotSuppress ==
  Done =>
    \A r \in ComponentRoots : \A f \in ReturnedExprs(r) :
      (TypeAt(f) = "JSXFragment" /\ Qualifying(f) \cap topmostElements # {}) =>
        \A p \in OwnReturns(r) :
          (/\ OrderOf(p) > OrderOf(f)
           /\ ~NonMarkupSite(p)
           /\ TypeAt(Append(p, 1)) = "JSXElement")
          => /\ OpeningOf(Append(p, 1)) \in topmostElements
             /\ Carries(OpeningOf(Append(p, 1)))

\* the functions nested in the function of the component at r
NestedFunctions(r) ==
  {f \in AllPaths :
     /\ TypeAt(f) \in FunctionTypes
     /\ IsPrefix(FunctionOf(r), f)
     /\ f # FunctionOf(r)}

\* the opening tags of the elements the function at f returns
ReturnedElements(f) ==
  {OpeningOf(Append(p, 1)) :
     p \in {q \in AllPaths : /\ TypeAt(q) = "ReturnStatement"
                             /\ OwnedBy(f, q)
                             /\ ~NonMarkupSite(q)
                             /\ TypeAt(Append(q, 1)) = "JSXElement"}}
  \cup (IF /\ TypeAt(f) = "ArrowFunctionExpression"
           /\ TypeAt(Append(f, 1)) = "JSXElement"
        THEN {OpeningOf(Append(f, 1))} ELSE {})

\* C14: when a run ends, for every function nested in a component, the
\* elements the nested function returns and the elements the component
\* itself returns are all marked and tagged, whichever comes first.
C14_NestedIndependent ==
  Done =>
    \A r \in ComponentRoots : \A f \in NestedFunctions(r) :
      (ReturnedElements(f) # {} /\ ReturnedElements(FunctionOf(r)) # {}) =>
        \A q \in ReturnedElements(f) \cup ReturnedElements(FunctionOf(r)) :
          q \in topmostElements /\ Carries(q)

\* the scan is about to visit an expression container that is an attribute value
AtAttributeValue ==
  /\ pc = "scan"
  /\ scanQueue # <<>>
  /\ Head(scanQueue) \in AttributeValues

\* C13: a visit of an attribute-value container leaves foundTopmost as it
\* was, and afterwards every element the value resolves to is marked,
\* whether the flag was set or not.
C13_PropValueIgnoresFlag ==
  [][AtAttributeValue =>
       /\ foundTopmost' = foundTopmost
       /\ Resolved(Append(Head(scanQueue), 1)) \subseteq topmostElements']_vars

\* a run in which an attribute value was marked before the component's return
\* (the return's element is marked as well) and one after it
C13_Witness ==
  /\ Done
  /\ \E r \in ComponentRoots : \E p \in OwnReturns(r) :
       \E v \in AttributeValues, w \in AttributeValues :
         /\ IsPrefix(r, v) /\ IsPrefix(r, w)
         /\ ~NonMarkupSite(p)
         /\ TypeAt(Append(p, 1)) = "JSXElement"
         /\ OpeningOf(Append(p, 1)) \in topmostElements
         /\ OrderOf(v) < OrderOf(p)
         /\ \A q \in ScanSites(r) : OrderOf(q) < OrderOf(p) => NonMarkupSite(q)
         /\ Resolved(Append(v, 1)) # {}
         /\ Resolved(Append(v, 1)) \subseteq topmostElements
         /\ OrderOf(w) > OrderOf(p)
         /\ Resolved(Append(w, 1)) # {}
         /\ Resolved(Append(w, 1)) \subseteq topmostElements

\* C15: a step adds to topmostElements only opening tags the traversal of the
\* file has not reached yet, and when a run ends every member of
\* topmostElements carries exactly one __file-path attribute.
C15_MarkBeforeInject ==
  [][/\ \A p \in topmostElements' \ topmostElements : p \in Range(queue)
     /\ (pc' = "done") => \A p \in topmostElements' : CountOf(p)' = 1]_vars

\* a run ended with tags marked by the scans of two declarations, each tagged once
C15_Witness ==
  /\ Done
  /\ runs = 1
  /\ \E p \in topmostElements, q \in topmostElements :
       /\ p # q
       /\ ~CarriedAtParse(p) /\ ~CarriedAtParse(q)
       /\ CountOf(p) = 1 /\ CountOf(q) = 1
       /\ \E r \in ComponentRoots : IsPrefix(r, p) /\ ~IsPrefix(r, q)

====
